---- MODULE Spec2Model ----
(***************************************************************************)
(* Model of SublimeLint: the plugin (sublimelint_plugin.py: queue,         *)
(* background scheduler thread, deferred callbacks on the UI context,      *)
(* dispatcher, diagnostic store, marks) and the module loader              *)
(* (sublimelint/loader.py).                                                *)
(*                                                                         *)
(* Strings on which the code does substring tests are sequences of         *)
(* one-character strings.  Views are identified by view.id().              *)
(***************************************************************************)
EXTENDS Integers, Sequences, FiniteSets, TLC

(* ---------------- bounds of the model ---------------- *)
MaxPending == 2       \* deferred callbacks outstanding in the host at once
MaxLine == 2          \* line numbers a linter may report are 1..MaxLine
LineLen == 4          \* characters per line of the modelled buffers
MaxEnq == 2           \* stores counted per id while it stays in the queue
MaxInits == 2         \* executions of the module's top level that are counted

VIds == {1, 2}        \* ids of the views the model may have open
NoView == 0           \* the cell _view before its first assignment
Lines == 1..MaxLine

(* ---------------- strings ---------------- *)
UserNotes == <<"u", "s", "e", "r", " ", "n", "o", "t", "e", "s">>
KeyPython == <<"P", "y">>
KeyY == <<"y">>
SynPython == <<"P", "/", "P", "y", ".", "t", "m">>
SynText == <<"P", "/", "T", "x", "t">>
Syntaxes == {SynPython, SynText}
KeyPythonFull == <<"P", "y", "t", "h", "o", "n">>
KeyRuby == <<"R", "b">>
\* 'Packages/Python/Python.tmLanguage'
SynPythonFull ==
    <<"P", "a", "c", "k", "a", "g", "e", "s", "/", "P", "y", "t", "h", "o", "n", "/", "P",
    "y", "t", "h", "o", "n", ".", "t", "m", "L", "a", "n", "g", "u", "a", "g", "e">>

IsSubstringAtStart(a, b) ==
    Len(a) <= Len(b) /\ \A j \in 1..Len(a) : b[j] = a[j]

\* Python's  a in b  on strings: a occurs as a contiguous run inside b
IsSubstring(a, b) ==
    \E i \in 0..(Len(b) - Len(a)) : \A j \in 1..Len(a) : b[i + j] = a[j]

(* ---------------- linter units and their results ---------------- *)
NoExc == "none"
Faults == {"RuntimeError", "OtherError"}

EmptyErrors == [l \in {} |-> <<>>]
Messages(l) == <<"E", l>>
ErrorsOn(ls) == [l \in ls |-> Messages(l)]
Spans == {<<0, 5>>}

\* what one call of unit.run does: raise exc, or return the triple
Returns(u, ls, es) == [exc |-> NoExc, underlines |-> u, lines |-> ls, errors |-> ErrorsOn(es)]
Raises(f) == [exc |-> f, underlines |-> {}, lines |-> {}, errors |-> EmptyErrors]
AllRaises == {Raises(f) : f \in Faults}

\* Loader.basepath and Loader.modpath = basepath.replace('/', '.')
ReplaceChar(str, a, b) == [i \in 1..Len(str) |-> IF str[i] = a THEN b ELSE str[i]]
basepath == <<"s", "/", "m">>
modpath == ReplaceChar(basepath, "/", ".")
\* fullmod = '%s.%s' % (self.modpath, name)
FullMod(name) == modpath \o <<".">> \o name

\* a module object: its __name__, its language attribute, the behaviours of run
Unit(n, lang, outs) == [name |-> n, language |-> lang, outs |-> outs]
NoLinter == Unit(<<>>, <<>>, {})

NotesOuts == {Returns({}, {}, {}), Returns(Spans, {}, {}), Raises("RuntimeError")}
NotesUnit == Unit(FullMod(<<"n">>), UserNotes, NotesOuts)
SmallOuts == {Returns(Spans, {1}, {1})} \cup AllRaises
PyUnitSmall == Unit(FullMod(<<"p">>), KeyPython, SmallOuts)
RichOuts == {Returns({}, {}, {}), Returns(Spans, {1}, {1}), Returns({}, {2}, {2}),
             Returns(Spans, {}, {1, 2})} \cup AllRaises
PyUnitRich == Unit(FullMod(<<"p">>), KeyPython, RichOuts)
YUnit == Unit(FullMod(<<"y">>), KeyY, {Returns({}, {2}, {2})})

Registry(units) == [l \in {u.language : u \in units} |-> CHOOSE u \in units : u.language = l]

(* ---------------- state ---------------- *)
VARIABLES
    LINTERS,      \* language key -> module                     (plugin.py:19)
    QUEUE,        \* view id -> view waiting for the linter     (plugin.py:20)
    ERRORS,       \* view id -> (line -> messages)              (plugin.py:21)
    pc,           \* position of the background_linter thread
    todo,         \* keys of dict(QUEUE) not yet iterated
    vid,          \* loop variable of background_linter
    _view,        \* closure cell shared by every _update_view
    pending,      \* callbacks handed to sublime.set_timeout, in order
    uiPc,         \* position of the UI context inside _update_view
    uiLinter,     \* local  linter  of the running _update_view
    views,        \* ids of the open views
    syntax,       \* view.settings().get("syntax")
    setting,      \* view.settings().get('sublimelint'): "unset", "true", "false"
    notesSetting, \* view.settings().get('sublimelint_notes')
    marks,        \* view id -> mark-group name -> regions
    status,       \* view id -> text under the status key 'Linter'
    dirty,        \* history: view edited since run_once last read its text
    lastRun,      \* history: view id -> errors returned by its last completed run
    snapAll,      \* history: the keys of the last dict(QUEUE)
    afterSnap,    \* history: ids stored by queue_linter since the last dict(QUEUE)
    nEnq,         \* history: queue_linter stores per id since it was last absent
    schedCount,   \* history: set_timeout calls per id in the current pass
    uiTok,        \* history: the callback being run
    uiSel,        \* history: the view the running callback selected for
    last,         \* history: what the last step did
    cwd,          \* os.getcwd()
    basedir,      \* Loader.basedir
    disk,         \* unit name -> the definition in sublimelint/modules/<name>.py
    globList,     \* the file names glob.glob returns, in its order
    loaderPc,     \* "new" before Loader(...), then "ready", "failed" if it raised
    ldLast,       \* history: the last call into the loader
    active,       \* '__active_linter_thread' in globals()        (plugin.py:186)
    threads,      \* history: calls of thread.start_new_thread
    inits,        \* history: executions of the plugin module's top level
    loaded        \* the plugin's functions and handlers are defined

pluginVars == <<LINTERS, QUEUE, ERRORS, pc, todo, vid, _view, pending, uiPc, uiLinter,
                views, syntax, setting, notesSetting, marks, status, dirty, lastRun,
                snapAll, afterSnap, nEnq, schedCount, uiTok, uiSel, last>>
loaderVars == <<cwd, basedir, disk, globList, loaderPc, ldLast>>
moduleVars == <<active, threads, inits, loaded>>
vars == <<pluginVars, loaderVars, moduleVars>>

(* ---------------- dictionaries ---------------- *)
DictSet(d, k, x) == [a \in DOMAIN d \cup {k} |-> IF a = k THEN x ELSE d[a]]
DictDel(d, k) == [a \in DOMAIN d \ {k} |-> d[a]]
DictKeys(d) == DOMAIN d
IterRestKeep(keys, k) == keys
IterRest(keys, k) == keys \ {k}

\* the third target of  underlines, lines, ERRORS[vid] = linter.run(...)
StoreErrorsMerge(E, v, errors) ==
    LET old == IF v \in DOMAIN E THEN E[v] ELSE errors
    IN  DictSet(E, v, [l \in DOMAIN old \cup DOMAIN errors |->
                         IF l \in DOMAIN errors THEN errors[l] ELSE old[l]])
StoreErrors(E, v, errors) == DictSet(E, v, errors)

(* ---------------- marks ---------------- *)
NoStatus == <<>>
NoMarks == [underline |-> {}, outlines |-> {}, notes |-> {}]

\* view.full_line(view.text_point(nb, 0)): the region of line nb
FullLine(nb) == <<nb * LineLen, (nb + 1) * LineLen>>

erase_lint_marks(m) == [m EXCEPT !.underline = {}, !.outlines = {}]

add_lint_marks_incremental(m, underlines, lines) ==
    LET u == IF underlines # {} THEN [m EXCEPT !.underline = underlines] ELSE m
    IN  IF lines # {} THEN [u EXCEPT !.outlines = {FullLine(nb) : nb \in lines}] ELSE u

add_lint_marks(m, underlines, lines) ==
    LET e == erase_lint_marks(m)
        u == IF underlines # {} THEN [e EXCEPT !.underline = underlines] ELSE e
    IN  IF lines # {} THEN [u EXCEPT !.outlines = {FullLine(nb) : nb \in lines}] ELSE u

(* ---------------- dispatcher ---------------- *)
\* the values select_linter may return: the unit of any matching key (the
\* iteration order of the dict is not specified), None when no key matches
select_linter(v) ==
    LET hits == {l \in DOMAIN LINTERS : IsSubstring(l, syntax[v])}
    IN  IF hits = {} THEN {NoLinter} ELSE {LINTERS[l] : l \in hits}

\* the effect of a handler on the UI-side state is computed on a record
Ui0 == [ERRORS |-> ERRORS, marks |-> marks, dirty |-> dirty, lastRun |-> lastRun,
        exc |-> NoExc, ran |-> FALSE, raised |-> FALSE, done |-> FALSE,
        res |-> Returns({}, {}, {}), entered |-> FALSE, unit |-> <<>>]

highlight_notes(s, v, nout) ==
    LET s1 == [s EXCEPT !.marks[v].notes = {}]
    IN  IF UserNotes \notin DOMAIN LINTERS THEN [s1 EXCEPT !.exc = "KeyError"]
        ELSE IF nout.exc # NoExc THEN [s1 EXCEPT !.exc = nout.exc]
        ELSE IF nout.underlines # {} THEN [s1 EXCEPT !.marks[v].notes = nout.underlines]
        ELSE s1

run_once_erasing(s0, linter, v, out, nout) ==
    LET s == [s0 EXCEPT !.entered = TRUE, !.unit = linter.language] IN
    IF UserNotes \notin DOMAIN LINTERS THEN [s EXCEPT !.exc = "KeyError"]
    ELSE IF linter = LINTERS[UserNotes] THEN highlight_notes(s, v, nout)
    ELSE LET s1 == [s EXCEPT !.dirty[v] = FALSE, !.ran = TRUE,
                             !.marks[v] = erase_lint_marks(@)]
         IN  IF out.exc # NoExc THEN [s1 EXCEPT !.exc = out.exc, !.raised = TRUE]
             ELSE [s1 EXCEPT !.ERRORS = StoreErrors(@, v, out.errors),
                             !.lastRun = DictSet(@, v, out.errors),
                             !.marks[v] = add_lint_marks(@, out.underlines, out.lines),
                             !.done = TRUE, !.res = out]

run_once_unchecked(s0, linter, v, out, nout) ==
    LET s == [s0 EXCEPT !.entered = TRUE, !.unit = linter.language] IN
    IF UserNotes \in DOMAIN LINTERS /\ linter = LINTERS[UserNotes]
    THEN highlight_notes(s, v, nout)
    ELSE LET s1 == [s EXCEPT !.dirty[v] = FALSE, !.ran = TRUE]
         IN  IF out.exc # NoExc THEN [s1 EXCEPT !.exc = out.exc, !.raised = TRUE]
             ELSE [s1 EXCEPT !.ERRORS = StoreErrors(@, v, out.errors),
                             !.lastRun = DictSet(@, v, out.errors),
                             !.marks[v] = add_lint_marks(@, out.underlines, out.lines),
                             !.done = TRUE, !.res = out]

\* s0 is the state at the call; entered and unit record the call itself
run_once(s0, linter, v, out, nout) ==
    LET s == [s0 EXCEPT !.entered = TRUE, !.unit = linter.language] IN
    IF UserNotes \notin DOMAIN LINTERS THEN [s EXCEPT !.exc = "KeyError"]
    ELSE IF linter = LINTERS[UserNotes] THEN highlight_notes(s, v, nout)
    ELSE LET s1 == [s EXCEPT !.dirty[v] = FALSE, !.ran = TRUE]
         IN  IF out.exc # NoExc THEN [s1 EXCEPT !.exc = out.exc, !.raised = TRUE]
             ELSE [s1 EXCEPT !.ERRORS = StoreErrors(@, v, out.errors),
                             !.lastRun = DictSet(@, v, out.errors),
                             !.marks[v] = add_lint_marks(@, out.underlines, out.lines),
                             !.done = TRUE, !.res = out]

background_run_ungated(s, linter, v, out, nout) ==
    LET s1 == IF linter # NoLinter
              THEN run_once(s, linter, v, out, nout) ELSE s
    IN  IF s1.exc # NoExc THEN s1
        ELSE IF notesSetting[v] THEN highlight_notes(s1, v, nout) ELSE s1

background_run(s, linter, v, out, nout) ==
    LET s1 == IF setting[v] = "true" /\ linter # NoLinter
              THEN run_once(s, linter, v, out, nout) ELSE s
    IN  IF s1.exc # NoExc THEN s1
        ELSE IF notesSetting[v] THEN highlight_notes(s1, v, nout) ELSE s1

\* the behaviours of the calls a handler makes: those of linter.run when
\* run_once reaches it, those of LINTERS["user notes"].run when highlight_notes does
IsNotes(linter) == UserNotes \in DOMAIN LINTERS /\ linter = LINTERS[UserNotes]
OutsOf(linter) == IF linter = NoLinter \/ IsNotes(linter) THEN {Returns({}, {}, {})}
                  ELSE linter.outs
NotesOutsIf(called) == IF called /\ UserNotes \in DOMAIN LINTERS THEN LINTERS[UserNotes].outs
                       ELSE {Returns({}, {}, {})}

Event(op, v, s) ==
    [op |-> op, vid |-> v, sched |-> NoView, k |-> 0, sel |-> NoView,
     exc |-> s.exc, caught |-> NoExc, ran |-> s.ran, raised |-> s.raised,
     done |-> s.done, res |-> s.res, entered |-> s.entered, unit |-> s.unit, line |-> 0,
     prevLines |-> IF v \in DOMAIN ERRORS THEN DOMAIN ERRORS[v] ELSE {},
     prevMarked |-> v \in views /\ marks[v].underline # {} /\ marks[v].outlines # {}]
Quiet(op, v) == Event(op, v, Ui0)
Thread == Quiet("thread", NoView)

(* ---------------- the background thread ---------------- *)
histVarsSched == <<uiTok, uiSel>>
uiState == <<LINTERS, ERRORS, uiPc, uiLinter, views, syntax, setting, notesSetting,
             marks, status, dirty, lastRun>>

\* for vid in dict(QUEUE): the copy is taken once, when the loop starts
bl_snapshot ==
    /\ pc = "sleep"
    /\ todo' = DictKeys(QUEUE)
    /\ snapAll' = DictKeys(QUEUE)
    /\ afterSnap' = {}
    /\ schedCount' = [v \in VIds |-> 0]
    /\ pc' = "for"
    /\ last' = Thread
    /\ UNCHANGED <<QUEUE, vid, _view, pending, uiState, nEnq, histVarsSched,
                   loaderVars, moduleVars>>

\* next key of the copy, then  _view = QUEUE[vid]
bl_get ==
    /\ pc = "for"
    /\ todo # {}
    /\ \E k \in todo :
        /\ vid' = k
        /\ todo' = IterRest(todo, k)
        /\ IF k \in DOMAIN QUEUE
           THEN _view' = QUEUE[k] /\ pc' = "set_timeout"
           ELSE _view' = _view /\ pc' = "dead"
        /\ last' = Thread
    /\ UNCHANGED <<QUEUE, pending, uiState, snapAll, afterSnap, nEnq,
                   schedCount, histVarsSched, loaderVars, moduleVars>>

bl_call_update_view ==
    /\ pc = "set_timeout"
    /\ \E l \in select_linter(_view) :
       \E out \in OutsOf(l), nout \in NotesOutsIf(notesSetting[_view] \/ IsNotes(l)) :
        LET s == background_run(Ui0, l, _view, out, nout)
        IN  /\ ERRORS' = s.ERRORS
            /\ marks' = s.marks
            /\ dirty' = s.dirty
            /\ lastRun' = s.lastRun
            /\ last' = Event("update_view", _view, s)
    /\ pc' = "del"
    /\ UNCHANGED <<LINTERS, QUEUE, todo, vid, _view, pending, uiPc, uiLinter, views,
                   syntax, setting, notesSetting, status, snapAll, afterSnap, nEnq,
                   schedCount, histVarsSched, loaderVars, moduleVars>>

\* sublime.set_timeout(_update_view, 100)
bl_set_timeout ==
    /\ pc = "set_timeout"
    /\ Len(pending) < MaxPending
    /\ pending' = Append(pending, [vid |-> vid, k |-> Cardinality(snapAll)])
    /\ schedCount' = [schedCount EXCEPT ![vid] = @ + 1]
    /\ pc' = "del"
    /\ last' = Thread
    /\ UNCHANGED <<QUEUE, todo, vid, _view, uiState, snapAll, afterSnap, nEnq,
                   histVarsSched, loaderVars, moduleVars>>

\* try: del QUEUE[vid]  except: pass
bl_del ==
    /\ pc = "del"
    /\ QUEUE' = DictDel(QUEUE, vid)
    /\ pc' = "for"
    /\ nEnq' = [nEnq EXCEPT ![vid] = 0]
    /\ last' = Thread
    /\ UNCHANGED <<todo, vid, _view, pending, uiState, snapAll, afterSnap,
                   schedCount, histVarsSched, loaderVars, moduleVars>>

\* the copy is exhausted: back to time.sleep
bl_sleep ==
    /\ pc = "for"
    /\ todo = {}
    /\ pc' = "sleep"
    /\ last' = Thread
    /\ UNCHANGED <<QUEUE, todo, vid, _view, pending, uiState, snapAll, afterSnap,
                   nEnq, schedCount, histVarsSched, loaderVars, moduleVars>>

background_linter == bl_snapshot \/ bl_get \/ bl_set_timeout \/ bl_del \/ bl_sleep

(* ---------------- the UI context ---------------- *)
schedState == <<pc, todo, vid, _view, snapAll, schedCount>>

queue_linter_ungated(v) ==
    /\ QUEUE' = DictSet(QUEUE, v, v)
    /\ afterSnap' = afterSnap \cup {v}
    /\ nEnq' = [nEnq EXCEPT ![v] = IF @ < MaxEnq THEN @ + 1 ELSE @]
    /\ UNCHANGED marks

queue_linter(v) ==
    IF select_linter(v) = {NoLinter}
    THEN /\ marks' = [marks EXCEPT ![v] = erase_lint_marks(@)]
         /\ UNCHANGED <<QUEUE, afterSnap, nEnq>>
    ELSE /\ QUEUE' = DictSet(QUEUE, v, v)
         /\ afterSnap' = afterSnap \cup {v}
         /\ nEnq' = [nEnq EXCEPT ![v] = IF @ < MaxEnq THEN @ + 1 ELSE @]
         /\ UNCHANGED marks

\* the buffer of view v changes and the host calls on_modified
on_modified(v) ==
    /\ uiPc = "idle"
    /\ v \in views
    /\ dirty' = [dirty EXCEPT ![v] = TRUE]
    /\ queue_linter(v)
    /\ last' = Quiet("on_modified", v)
    /\ UNCHANGED <<LINTERS, ERRORS, pending, uiPc, uiLinter, views, syntax, setting,
                   notesSetting, status, lastRun, schedState, histVarsSched,
                   loaderVars, moduleVars>>

\* _update_view, first half: linter = select_linter(_view)
update_view_select ==
    /\ uiPc = "idle"
    /\ pending # <<>>
    /\ pending' = Tail(pending)
    /\ uiTok' = Head(pending)
    /\ uiSel' = _view
    /\ \E l \in select_linter(_view) : uiLinter' = l
    /\ uiPc' = "selected"
    /\ last' = [Quiet("select", _view) EXCEPT !.sched = Head(pending).vid,
                                              !.k = Head(pending).k, !.sel = _view]
    /\ UNCHANGED <<LINTERS, QUEUE, ERRORS, views, syntax, setting, notesSetting, marks,
                   status, dirty, lastRun, schedState, afterSnap, nEnq, loaderVars, moduleVars>>

\* _update_view, second half: try: background_run(linter, _view)
\*                            except RuntimeError, excp: print excp
update_view_run ==
    /\ uiPc = "selected"
    /\ \E out \in OutsOf(uiLinter),
          nout \in NotesOutsIf(notesSetting[_view] \/ IsNotes(uiLinter)) :
        LET s == background_run(Ui0, uiLinter, _view, out, nout)
            isCaught == s.exc = "RuntimeError"
        IN  /\ ERRORS' = s.ERRORS
            /\ marks' = s.marks
            /\ dirty' = s.dirty
            /\ lastRun' = s.lastRun
            /\ last' = [Event("update_view", _view, s) EXCEPT
                          !.sched = uiTok.vid, !.k = uiTok.k, !.sel = uiSel,
                          !.exc = IF isCaught THEN NoExc ELSE s.exc,
                          !.caught = IF isCaught THEN s.exc ELSE NoExc]
    /\ uiPc' = "idle"
    /\ uiLinter' = NoLinter
    /\ UNCHANGED <<LINTERS, QUEUE, pending, views, syntax, setting, notesSetting,
                   status, schedState, afterSnap, nEnq, histVarsSched, loaderVars, moduleVars>>

\* linter = select_linter(view): the first statement of on_load and of
\* _update_view, the value returned kept in the local linter
select_step(v) ==
    /\ uiPc = "idle"
    /\ v \in views
    /\ \E l \in select_linter(v) : uiLinter' = l
    /\ last' = Quiet("select_linter", v)
    /\ UNCHANGED <<LINTERS, QUEUE, ERRORS, pending, uiPc, views, syntax, setting,
                   notesSetting, marks, status, dirty, lastRun, schedState, afterSnap,
                   nEnq, histVarsSched, loaderVars, moduleVars>>

\* BackgroundLinter.on_load
on_load(v) ==
    /\ uiPc = "idle"
    /\ v \in views
    /\ \E linter \in select_linter(v) :
       \E out \in OutsOf(linter), nout \in NotesOutsIf(notesSetting[v] \/ IsNotes(linter)) :
        LET s == IF linter # NoLinter THEN background_run(Ui0, linter, v, out, nout)
                 ELSE Ui0
        IN  /\ ERRORS' = s.ERRORS
            /\ marks' = s.marks
            /\ dirty' = s.dirty
            /\ lastRun' = s.lastRun
            /\ last' = Event("on_load", v, s)
    /\ UNCHANGED <<LINTERS, QUEUE, pending, uiPc, uiLinter, views, syntax, setting,
                   notesSetting, status, schedState, afterSnap, nEnq, histVarsSched,
                   loaderVars, moduleVars>>

\* '; '.join(messages)
RECURSIVE Join(_)
Join(msgs) ==
    IF Len(msgs) = 0 THEN <<>>
    ELSE IF Len(msgs) = 1 THEN <<msgs[1]>>
    ELSE <<msgs[1], "; ">> \o Join(Tail(msgs))

\* BackgroundLinter.on_selection_modified, the cursor being on line lineno
on_selection_modified(v, lineno) ==
    /\ uiPc = "idle"
    /\ v \in views
    /\ status' = [status EXCEPT ![v] =
                    IF v \in DOMAIN ERRORS /\ lineno \in DOMAIN ERRORS[v]
                    THEN Join(ERRORS[v][lineno]) ELSE NoStatus]
    /\ last' = [Quiet("on_selection_modified", v) EXCEPT !.line = lineno]
    /\ UNCHANGED <<LINTERS, QUEUE, ERRORS, pending, uiPc, uiLinter, views, syntax,
                   setting, notesSetting, marks, dirty, lastRun, schedState, afterSnap,
                   nEnq, histVarsSched, loaderVars, moduleVars>>

\* the setting 'sublimelint' after a command
SetSetting(v, x) ==
    /\ setting' = [setting EXCEPT ![v] = x]
    /\ UNCHANGED <<LINTERS, QUEUE, ERRORS, pending, uiPc, uiLinter, views, syntax,
                   notesSetting, status, dirty, lastRun, schedState, afterSnap, nEnq,
                   histVarsSched, loaderVars, moduleVars>>

Lint_reset_forgetting(v) ==
    /\ uiPc = "idle"
    /\ v \in views
    /\ marks' = [marks EXCEPT ![v] = erase_lint_marks(@)]
    /\ ERRORS' = DictDel(ERRORS, v)
    /\ setting' = [setting EXCEPT ![v] = IF @ = "unset" THEN "true" ELSE @]
    /\ last' = Quiet("reset", v)
    /\ UNCHANGED <<LINTERS, QUEUE, pending, uiPc, uiLinter, views, syntax,
                   notesSetting, status, dirty, lastRun, schedState, afterSnap, nEnq,
                   histVarsSched, loaderVars, moduleVars>>

Lint_reset_enabling(v) ==
    /\ uiPc = "idle"
    /\ v \in views
    /\ marks' = [marks EXCEPT ![v] = erase_lint_marks(@)]
    /\ SetSetting(v, "true")
    /\ last' = Quiet("reset", v)

\* view.run_command("lint", "reset")
Lint_reset(v) ==
    /\ uiPc = "idle"
    /\ v \in views
    /\ marks' = [marks EXCEPT ![v] = erase_lint_marks(@)]
    /\ SetSetting(v, IF setting[v] = "unset" THEN "true" ELSE setting[v])
    /\ last' = Quiet("reset", v)

\* view.run_command("lint", "on")
Lint_on(v) ==
    /\ uiPc = "idle"
    /\ v \in views
    /\ SetSetting(v, "true")
    /\ last' = Quiet("on", v)
    /\ UNCHANGED marks

\* view.run_command("lint", "off")
Lint_off(v) ==
    /\ uiPc = "idle"
    /\ v \in views
    /\ SetSetting(v, "false")
    /\ last' = Quiet("off", v)
    /\ UNCHANGED marks

\* view.run_command("lint", name) with name in LINTERS: Lint._run
Lint_run(v, name) ==
    /\ uiPc = "idle"
    /\ v \in views
    /\ name \in DOMAIN LINTERS
    /\ \E out \in OutsOf(LINTERS[name]), nout \in NotesOutsIf(IsNotes(LINTERS[name])) :
        LET s == run_once(Ui0, LINTERS[name], v, out, nout)
        IN  /\ ERRORS' = s.ERRORS
            /\ marks' = s.marks
            /\ dirty' = s.dirty
            /\ lastRun' = s.lastRun
            /\ last' = Event("run", v, s)
    /\ setting' = [setting EXCEPT ![v] = IF @ = "true" THEN "unset" ELSE @]
    /\ UNCHANGED <<LINTERS, QUEUE, pending, uiPc, uiLinter, views, syntax,
                   notesSetting, status, schedState, afterSnap, nEnq, histVarsSched,
                   loaderVars, moduleVars>>

(* ---------------- the plugin module's top level ---------------- *)
EmptyRegistry == [l \in {} |-> NoLinter]

\* if not '__active_linter_thread' in globals()
StartsThreadAlways(act) == TRUE
StartsThread(act) == ~act

\* one execution of the top level of sublimelint_plugin.py, the first load or
\* a reload into the same globals: lines 19-21 bind fresh dicts, line 24
\* constructs the Loader, which fills LINTERS with reg and returns, or raises;
\* when it raises nothing below line 24 is executed.  A thread started begins
\* at time.sleep; the running thread and the callbacks the host holds are not
\* affected.
module_init(reg, returns) ==
    /\ uiPc = "idle"
    /\ inits' = IF inits < MaxInits THEN inits + 1 ELSE inits
    /\ LINTERS' = reg
    /\ QUEUE' = [v \in {} |-> NoView]
    /\ ERRORS' = [v \in {} |-> EmptyErrors]
    /\ nEnq' = [v \in VIds |-> 0]
    /\ IF returns
       THEN /\ loaded' = TRUE
            /\ IF StartsThread(active)
               THEN active' = TRUE /\ threads' = threads + 1 /\ pc' = "sleep"
               ELSE UNCHANGED <<active, threads, pc>>
       ELSE UNCHANGED <<loaded, active, threads, pc>>
    /\ last' = Quiet("module_init", NoView)
    /\ UNCHANGED <<todo, vid, _view, pending, uiPc, uiLinter, views, syntax, setting,
                   notesSetting, marks, status, dirty, lastRun, snapAll, afterSnap,
                   schedCount, histVarsSched, loaderVars>>

(* ---------------- the loader (sublimelint/loader.py) ---------------- *)
Dirs == {"base", "other"}
UnitNames == {<<"a">>, <<"b">>, <<"c">>}
InitName == <<"_", "i">>
ignore == {InitName}
Kinds == {"ok", "nolang", "badlang", "fail"}
LanguageOf(name) == <<"L">> \o name

\* the path glob returns for a unit, reduced to its file name by os.path.split
FileOf(name) == name \o <<".", "p", "y">>
\* name.split('.', 1)[0]
RECURSIVE SplitFirst(_)
SplitFirst(file) ==
    IF file = <<>> \/ Head(file) = "." THEN <<>>
    ELSE <<Head(file)>> \o SplitFirst(Tail(file))

StartsWith(str, prefix) ==
    Len(prefix) <= Len(str) /\ SubSeq(str, 1, Len(prefix)) = prefix
\* str.replace(old, '', 1)
RemoveFirst(str, old) ==
    LET at == {i \in 1..(Len(str) - Len(old) + 1) : SubSeq(str, i, i + Len(old) - 1) = old}
    IN  IF at = {} THEN str
        ELSE LET i == CHOOSE j \in at : \A k \in at : j <= k
             IN  SubSeq(str, 1, i - 1) \o SubSeq(str, i + Len(old), Len(str))

\* the module a successful import and reload of the unit gives
ModuleOf(name) == Unit(FullMod(name), LanguageOf(name), {Returns({}, {}, {})})

pluginRest == <<QUEUE, ERRORS, pc, todo, vid, _view, pending, uiPc, uiLinter, views,
                syntax, setting, notesSetting, marks, status, dirty, lastRun, snapAll,
                afterSnap, nEnq, schedCount, uiTok, uiSel, last, moduleVars>>

Ld0 == [linters |-> LINTERS, cwd |-> cwd, basedir |-> basedir, exc |-> NoExc]

\* Loader.load_module: st.exc is the exception that leaves the method
load_module(st, name) ==
    LET pushd == st.cwd
        s1 == [st EXCEPT !.cwd = st.basedir]
    IN  IF name \notin DOMAIN disk \/ disk[name] = "fail"
        THEN [s1 EXCEPT !.exc = "ImportError"]
        ELSE IF disk[name] = "ok"
             THEN [s1 EXCEPT !.linters = DictSet(@, LanguageOf(name), ModuleOf(name)),
                             !.cwd = pushd]
             ELSE [s1 EXCEPT !.cwd = pushd]

\* Loader.load_all over the files glob returned
RECURSIVE load_all(_, _)
load_all(st, files) ==
    IF files = <<>> THEN st
    ELSE LET name == SplitFirst(Head(files))
         IN  IF name \in ignore THEN load_all(st, Tail(files))
             ELSE LET s1 == load_module(st, name)
                  IN  IF s1.exc # NoExc THEN s1 ELSE load_all(s1, Tail(files))

LdEvent(op, name, st) ==
    [op |-> op, name |-> name, exc |-> st.exc, pushd |-> cwd, called |-> TRUE,
     module |-> <<>>]

\* Loader(basedir, linters), called with os.getcwd() and LINTERS
Loader_init ==
    /\ loaderPc = "new"
    /\ basedir' = cwd
    /\ LET st == load_all([Ld0 EXCEPT !.basedir = cwd], globList)
       IN  /\ LINTERS' = st.linters
           /\ cwd' = st.cwd
           /\ loaderPc' = IF st.exc = NoExc THEN "ready" ELSE "failed"
           /\ ldLast' = LdEvent("load_all", <<>>, st)
    /\ UNCHANGED <<disk, globList, pluginRest>>

\* MOD_LOAD.load_module(name)
Loader_load_module(name) ==
    /\ loaderPc = "ready"
    /\ basedir' = basedir
    /\ LET st == load_module(Ld0, name)
       IN  /\ LINTERS' = st.linters
           /\ cwd' = st.cwd
           /\ ldLast' = LdEvent("load_module", name, st)
    /\ UNCHANGED <<disk, globList, loaderPc, pluginRest>>

\* modules reload_module may be handed: the registered ones, one outside the
\* package, one whose name only shares the characters of modpath
OutsideModule == Unit(<<"o", ".", "a">>, <<"L", "o">>, {})
PrefixModule == Unit(modpath \o <<"x", ".", "a">>, <<"L", "x">>, {})

\* MOD_LOAD.reload_module(module)
Loader_reload_module(module) ==
    /\ loaderPc = "ready"
    /\ basedir' = basedir
    /\ LET fullmod == module.name
           name == RemoveFirst(fullmod, modpath \o <<".">>)
           st == load_module(Ld0, name)
       IN  IF ~StartsWith(fullmod, modpath)
           THEN /\ UNCHANGED <<LINTERS, cwd>>
                /\ ldLast' = [LdEvent("reload_module", fullmod, Ld0) EXCEPT
                                !.called = FALSE, !.module = fullmod]
           ELSE /\ LINTERS' = st.linters
                /\ cwd' = st.cwd
                /\ ldLast' = [LdEvent("reload_module", name, st) EXCEPT !.module = fullmod]
    /\ UNCHANGED <<disk, globList, loaderPc, pluginRest>>

\* some other code of the process changes the working directory
os_chdir(d) ==
    /\ loaderPc = "ready"
    /\ d # cwd
    /\ cwd' = d
    /\ ldLast' = [op |-> "chdir", name |-> <<>>, exc |-> NoExc, pushd |-> cwd,
                  called |-> FALSE, module |-> <<>>]
    /\ UNCHANGED <<LINTERS, basedir, disk, globList, loaderPc, pluginRest>>

(* ---------------- specification ---------------- *)
InitPlugin(vs, reg, syns, sets, nsets) ==
    /\ LINTERS = reg
    /\ QUEUE = [v \in {} |-> NoView]
    /\ ERRORS = [v \in {} |-> EmptyErrors]
    /\ pc = "sleep"
    /\ todo = {}
    /\ vid = NoView
    /\ _view = NoView
    /\ pending = <<>>
    /\ uiPc = "idle"
    /\ uiLinter = NoLinter
    /\ views = vs
    /\ syntax \in [vs -> syns]
    /\ setting \in [vs -> sets]
    /\ notesSetting \in [vs -> nsets]
    /\ marks = [v \in vs |-> NoMarks]
    /\ status = [v \in vs |-> NoStatus]
    /\ dirty = [v \in vs |-> FALSE]
    /\ lastRun = [v \in {} |-> EmptyErrors]
    /\ snapAll = {}
    /\ afterSnap = {}
    /\ nEnq = [v \in VIds |-> 0]
    /\ schedCount = [v \in VIds |-> 0]
    /\ uiTok = [vid |-> NoView, k |-> 0]
    /\ uiSel = NoView
    /\ last = Quiet("init", NoView)

\* the loader has been constructed and has filled the registry
InitWith(vs, reg, syns, sets, nsets) ==
    /\ InitPlugin(vs, reg, syns, sets, nsets)
    /\ cwd = "base"
    /\ basedir = "base"
    /\ disk = [n \in {} |-> "ok"]
    /\ globList = <<>>
    /\ loaderPc = "ready"
    /\ ldLast = [op |-> "init", name |-> <<>>, exc |-> NoExc, pushd |-> "base",
                 called |-> FALSE, module |-> <<>>]
    /\ active = TRUE
    /\ threads = 1
    /\ inits = 1
    /\ loaded = TRUE

Init == InitWith(VIds, Registry({PyUnitSmall, NotesUnit}), {SynPython}, {"true"}, {FALSE})

Next ==
    \/ background_linter
    \/ \E v \in VIds : on_modified(v)
    \/ update_view_select
    \/ update_view_run

Spec == Init /\ [][Next]_vars

\* the handlers the host calls on the UI context, on one view, with linters of
\* every behaviour and registries with and without the notes unit
InitDispatch ==
    \E reg \in {Registry({PyUnitRich, NotesUnit}), Registry({PyUnitRich}),
                Registry({PyUnitRich, YUnit, NotesUnit})} :
        InitWith({1}, reg, Syntaxes, {"unset"}, BOOLEAN)

NextDispatch ==
    \/ \E v \in VIds : on_modified(v)
    \/ \E v \in VIds : on_load(v)
    \/ \E v \in VIds, lineno \in Lines : on_selection_modified(v, lineno)
    \/ \E v \in VIds : Lint_reset(v)
    \/ \E v \in VIds : Lint_on(v)
    \/ \E v \in VIds : Lint_off(v)
    \/ \E v \in VIds, name \in DOMAIN LINTERS : Lint_run(v, name)

SpecDispatch == InitDispatch /\ [][NextDispatch]_vars

\* the loader: any three unit files and __init__.py in any order glob may
\* give, each unit of any kind; LINTERS is the empty dict of plugin line 19
Orders == {o \in [1..4 -> UnitNames \cup {InitName}] : \A i, j \in 1..4 : o[i] = o[j] => i = j}
InitLoader ==
    /\ InitPlugin({1}, [l \in {} |-> NoLinter], {SynPython}, {"unset"}, {FALSE})
    /\ cwd \in Dirs
    /\ basedir = ""
    /\ disk \in [UnitNames -> Kinds]
    /\ \E o \in Orders : globList = [i \in 1..4 |-> FileOf(o[i])]
    /\ loaderPc = "new"
    /\ ldLast = [op |-> "init", name |-> <<>>, exc |-> NoExc, pushd |-> "base",
                 called |-> FALSE, module |-> <<>>]
    /\ active = FALSE
    /\ threads = 0
    /\ inits = 0
    /\ loaded = FALSE

NextLoader ==
    \/ Loader_init
    \/ \E name \in UnitNames \cup {<<"z">>} : Loader_load_module(name)
    \/ \E l \in DOMAIN LINTERS : Loader_reload_module(LINTERS[l])
    \/ \E m \in {OutsideModule, PrefixModule} : Loader_reload_module(m)
    \/ \E d \in Dirs : os_chdir(d)

SpecLoader == InitLoader /\ [][NextLoader]_vars

\* select_linter on every registry made of these units and every syntax
SelectUnits == {PyUnitSmall, YUnit, NotesUnit,
                Unit(FullMod(<<"f">>), KeyPythonFull, SmallOuts),
                Unit(FullMod(<<"r">>), KeyRuby, SmallOuts)}
SelectSyntaxes == {SynPython, SynText, SynPythonFull}
InitSelect ==
    \E us \in SUBSET SelectUnits :
        InitWith({1}, Registry(us), SelectSyntaxes, {"unset"}, {FALSE})

NextSelect == \E v \in VIds : select_step(v)

SpecSelect == InitSelect /\ [][NextSelect]_vars

\* the life of the plugin module in one process: its top level is executed
\* (first load, then reloads), the thread it started runs, the host calls the
\* handlers once they are defined; one view, the host's state before the load
InitModule ==
    /\ LINTERS = EmptyRegistry
    /\ QUEUE = [v \in {} |-> NoView]
    /\ ERRORS = [v \in {} |-> EmptyErrors]
    /\ pc = "none"
    /\ todo = {}
    /\ vid = NoView
    /\ _view = NoView
    /\ pending = <<>>
    /\ uiPc = "idle"
    /\ uiLinter = NoLinter
    /\ views = {1}
    /\ syntax = [v \in {1} |-> SynPython]
    /\ setting = [v \in {1} |-> "true"]
    /\ notesSetting = [v \in {1} |-> FALSE]
    /\ marks = [v \in {1} |-> NoMarks]
    /\ status = [v \in {1} |-> NoStatus]
    /\ dirty = [v \in {1} |-> FALSE]
    /\ lastRun = [v \in {} |-> EmptyErrors]
    /\ snapAll = {}
    /\ afterSnap = {}
    /\ nEnq = [v \in VIds |-> 0]
    /\ schedCount = [v \in VIds |-> 0]
    /\ uiTok = [vid |-> NoView, k |-> 0]
    /\ uiSel = NoView
    /\ last = Quiet("init", NoView)
    /\ cwd = "base"
    /\ basedir = "base"
    /\ disk = [n \in {} |-> "ok"]
    /\ globList = <<>>
    /\ loaderPc = "new"
    /\ ldLast = [op |-> "init", name |-> <<>>, exc |-> NoExc, pushd |-> "base",
                 called |-> FALSE, module |-> <<>>]
    /\ active = FALSE
    /\ threads = 0
    /\ inits = 0
    /\ loaded = FALSE

NextModule ==
    \/ module_init(Registry({PyUnitSmall, NotesUnit}), TRUE)
    \/ \E reg \in {EmptyRegistry, Registry({PyUnitSmall})} : module_init(reg, FALSE)
    \/ background_linter
    \/ update_view_select
    \/ update_view_run
    \/ \E v \in VIds : loaded /\ on_modified(v)
    \/ \E v \in VIds, lineno \in Lines : loaded /\ on_selection_modified(v, lineno)
    \/ \E v \in VIds : loaded /\ Lint_reset(v)
    \/ \E v \in VIds : loaded /\ Lint_on(v)
    \/ \E v \in VIds : loaded /\ Lint_off(v)

SpecModule == InitModule /\ [][NextModule]_vars

\* background linting and the commands on one view: the thread, the deferred
\* callbacks, on_load and every command of Lint that changes the setting or
\* runs a linter
InitGate == InitWith({1}, Registry({PyUnitSmall, NotesUnit}), {SynPython}, {"true"}, {FALSE})

NextGate ==
    \/ background_linter
    \/ update_view_select
    \/ update_view_run
    \/ \E v \in VIds : on_modified(v)
    \/ \E v \in VIds : on_load(v)
    \/ \E v \in VIds : Lint_reset(v)
    \/ \E v \in VIds : Lint_on(v)
    \/ \E v \in VIds : Lint_off(v)
    \/ \E v \in VIds, name \in DOMAIN LINTERS : Lint_run(v, name)

SpecGate == InitGate /\ [][NextGate]_vars

(* ---------------- properties: queue and scheduler ---------------- *)

\* C1 (drain atomicity): when a pass of background_linter has ended, every id
\* that queue_linter stored after the pass took its copy of the queue is still
\* in the queue; no store made after the copy is removed by that pass.
DrainAtomicity == pc = "sleep" => afterSnap \subseteq DOMAIN QUEUE

\* C2 (no edit is lost): once the queue is empty, no callback is outstanding
\* and the thread sleeps, nothing further will run; so every edited document
\* with a matching linter and background linting enabled must by then have had
\* its text read by run_once after its last edit.
Eligible(v) == select_linter(v) # {NoLinter} /\ setting[v] = "true"
Quiescent == pc = "sleep" /\ DOMAIN QUEUE = {} /\ pending = <<>> /\ uiPc = "idle"
NoEditLost == Quiescent => \A v \in views : Eligible(v) => ~dirty[v]

\* C3 (own dispatch): a callback scheduled in a pass whose copy held at least
\* two documents selects the linter for, and runs it on, the document it was
\* scheduled for.
OwnDispatch ==
    (last.op \in {"select", "update_view"} /\ last.k >= 2) =>
        (last.sel = last.sched /\ last.vid = last.sched)

\* C4 (idempotent enqueue): however many times queue_linter stored an id, the
\* queue holds that id once, bound to its view, and a pass schedules one
\* callback for each id of its copy: never two, and exactly one by its end.
IdempotentEnqueue ==
    \A v \in VIds :
        /\ nEnq[v] >= 1 => (v \in DOMAIN QUEUE /\ QUEUE[v] = v)
        /\ schedCount[v] <= 1
        /\ schedCount[v] = 1 => v \in snapAll
        /\ (pc = "sleep" /\ v \in snapAll) => schedCount[v] = 1

\* two stores of the same id before the copy, one callback scheduled for it
IdempotentEnqueueWitness ==
    /\ pc = "del"
    /\ nEnq[vid] >= 2
    /\ vid \notin afterSnap
    /\ schedCount[vid] = 1
    /\ Cardinality({i \in 1..Len(pending) : pending[i].vid = vid}) = 1

\* C6 (faults caught at the callback): no fault raised while _update_view
\* selects and runs the linter propagates out of _update_view, and the
\* scheduler thread stays alive.
CaughtAtCallback == (last.op = "update_view" => last.exc = NoExc) /\ pc # "dead"

\* C11 (single scheduler): however many times the top level of the plugin
\* module has been executed in the process, first load and reloads, at most
\* one background_linter thread has been started.
SingleScheduler == threads <= 1

\* the top level has been executed at least twice and returned, one thread runs
SingleSchedulerWitness ==
    /\ inits >= 2
    /\ last.op = "module_init"
    /\ loaded
    /\ threads = 1
    /\ pc \notin {"none", "sleep"}

\* C12 (enqueue gate): queue_linter stores the document in the queue only when
\* some registered language key occurs in its syntax at that moment; when none
\* does, the queue is left as it was and both lint mark-groups of the document
\* are empty afterwards.  So an id enters the queue only in a step of
\* queue_linter for that id with a matching key registered.
Registered(v) == \E l \in DOMAIN LINTERS : IsSubstring(l, syntax[v])
EnqueueGate ==
    [][/\ last'.op = "on_modified" =>
            IF Registered(last'.vid)
            THEN /\ last'.vid \in DOMAIN QUEUE'
                 /\ QUEUE'[last'.vid] = last'.vid
                 /\ marks' = marks
            ELSE /\ QUEUE' = QUEUE
                 /\ marks'[last'.vid].underline = {}
                 /\ marks'[last'.vid].outlines = {}
       /\ \A v \in DOMAIN QUEUE' \ DOMAIN QUEUE :
            last'.op = "on_modified" /\ last'.vid = v /\ Registered(v)]_vars

\* an edit of a document that carried lint marks and matches no registered key
EnqueueGateWitness ==
    /\ last.op = "on_modified"
    /\ last.prevMarked
    /\ ~Registered(last.vid)
    /\ marks[last.vid].underline = {} /\ marks[last.vid].outlines = {}
    /\ last.vid \notin DOMAIN QUEUE

\* C16 (view mutations only on the UI context): a step of the
\* background_linter thread changes no mark-group, no status, no entry of
\* ERRORS and no setting, and runs no linter: it only moves through its loop,
\* copies the queue, deletes from the queue and hands callbacks to
\* set_timeout.  So every such change and every run is a step of the UI context.
ThreadStep == pc # "none" /\ pc' # pc
UiOnlyMutations ==
    [][ThreadStep =>
          /\ marks' = marks /\ status' = status /\ ERRORS' = ERRORS
          /\ setting' = setting /\ dirty' = dirty /\ LINTERS' = LINTERS
          /\ ~last'.entered /\ ~last'.ran
          /\ DOMAIN QUEUE' \subseteq DOMAIN QUEUE
          /\ \/ pending' = pending
             \/ Len(pending') = Len(pending) + 1 /\ SubSeq(pending', 1, Len(pending)) = pending
      ]_vars

\* the thread has handed over a callback for an edited document that carries
\* the marks of an earlier run; the edit is still unread
UiOnlyMutationsWitness ==
    /\ last.op = "thread"
    /\ pc = "del"
    /\ vid \in views
    /\ dirty[vid]
    /\ marks[vid].underline # {}
    /\ pending # <<>>

\* C17 (the scheduler loop never terminates): whatever the interleaving of
\* the thread with enqueues and with re-executions of the module's top level,
\* the read QUEUE[vid] succeeds for every id of the copy the pass took, so
\* the thread is never ended by an uncaught exception.
SchedulerNeverDies == pc # "dead"

(* ---------------- properties: dispatcher ---------------- *)
Entry(E, v) == IF v \in DOMAIN E THEN <<TRUE, E[v]>> ELSE <<FALSE, EmptyErrors>>

\* C5 (dispatch error keeps the last known good state): a step in which the
\* linter's run raised leaves the document's ERRORS entry and its two lint
\* mark-groups as they were.
DispatchErrorKeepsState ==
    [][last'.raised =>
          /\ Entry(ERRORS', last'.vid) = Entry(ERRORS, last'.vid)
          /\ marks'[last'.vid].underline = marks[last'.vid].underline
          /\ marks'[last'.vid].outlines = marks[last'.vid].outlines]_vars

\* the linter raised on a document that had diagnostics and both kinds of marks
DispatchErrorWitness ==
    /\ last.raised
    /\ last.prevMarked
    /\ last.prevLines # {}
    /\ marks[last.vid].underline # {}
    /\ last.vid \in DOMAIN ERRORS

\* C9 (replace, not merge): the store holds, for each document, exactly the
\* line-to-messages mapping its most recent completed run returned (nothing
\* for a document no run completed on), and a lookup sets the status to the
\* messages of that run for the line, or erases it when it had none.
ReplaceNotMerge ==
    /\ ERRORS = lastRun
    /\ last.done => ERRORS[last.vid] = last.res.errors
    /\ last.op = "on_selection_modified" =>
          status[last.vid] =
              IF last.vid \in DOMAIN lastRun /\ last.line \in DOMAIN lastRun[last.vid]
              THEN Join(lastRun[last.vid][last.line]) ELSE NoStatus

\* diagnostics on line 1, then a run returning line 2 only
ReplaceNotMergeWitness ==
    /\ last.done
    /\ last.prevLines = {1}
    /\ DOMAIN last.res.errors = {2}
    /\ DOMAIN ERRORS[last.vid] = {2}

\* C10 (marks are fully replaced): after a completed run the underline group
\* holds the returned spans and the outline group the full lines of the
\* returned line numbers; a group whose returned set is empty is empty.
MarkFullReplace ==
    last.done =>
        /\ marks[last.vid].underline = last.res.underlines
        /\ marks[last.vid].outlines = {FullLine(nb) : nb \in last.res.lines}

\* a run returning nothing on a document that had both kinds of marks
MarkFullReplaceWitness ==
    /\ last.done
    /\ last.prevMarked
    /\ last.res.underlines = {} /\ last.res.lines = {}
    /\ marks[last.vid].underline = {} /\ marks[last.vid].outlines = {}

\* C14 (selection by substring): whatever the registry and the syntax string,
\* select_linter returns a registered unit whose language key occurs inside
\* the syntax string when some registered key does, and None exactly when no
\* registered key does.
Occurs(a, b) ==
    \E i \in 1..(Len(b) + 1) : \E n \in 0..(Len(b) - i + 1) : SubSeq(b, i, i + n - 1) = a
SelectBySubstring ==
    last.op = "select_linter" =>
        LET keys == {l \in DOMAIN LINTERS : Occurs(l, syntax[last.vid])}
        IN  IF keys = {} THEN uiLinter = NoLinter
            ELSE \E l \in keys : uiLinter = LINTERS[l]

\* 'Python' registered, syntax 'Packages/Python/Python.tmLanguage': that unit
SelectBySubstringWitness ==
    /\ last.op = "select_linter"
    /\ syntax[last.vid] = SynPythonFull
    /\ DOMAIN LINTERS = {KeyPythonFull, KeyRuby, UserNotes}
    /\ uiLinter = LINTERS[KeyPythonFull]

\* C15 (background gate, on-call bypass): a background dispatch, the deferred
\* callback or on_load, reaches run_once and the linter only when the
\* document's setting 'sublimelint' is true when it is dispatched; when the
\* setting is unset or false nothing runs and the document's ERRORS entry and
\* lint mark-groups stay as they were.  The command that runs a named linter
\* calls run_once whatever the setting is (and run_once then runs an ordinary
\* linter, the notes unit being registered: C18).
BackgroundGate ==
    [][/\ last'.op \in {"update_view", "on_load"} =>
            /\ (last'.entered \/ last'.ran) => setting[last'.vid] = "true"
            /\ setting[last'.vid] # "true" =>
                  /\ Entry(ERRORS', last'.vid) = Entry(ERRORS, last'.vid)
                  /\ marks'[last'.vid].underline = marks[last'.vid].underline
                  /\ marks'[last'.vid].outlines = marks[last'.vid].outlines
       /\ last'.op = "run" =>
            /\ last'.entered
            /\ (last'.unit # UserNotes /\ UserNotes \in DOMAIN LINTERS) => last'.ran]_vars

\* a callback dispatched for an edited document whose setting was switched
\* off after the edit: no run, the edit stays unread
BackgroundGateWitness ==
    /\ last.op = "update_view"
    /\ last.vid \in views
    /\ setting[last.vid] = "false"
    /\ dirty[last.vid]
    /\ ~last.entered

\* the command ran an ordinary linter while the setting was false
OnCallBypassReached ==
    /\ last.op = "run"
    /\ setting[last.vid] = "false"
    /\ last.ran /\ last.done

\* C18 (run_once depends on the notes unit): when no unit is registered under
\* 'user notes', every call of run_once raises KeyError before the text is
\* read or the linter run, and ERRORS and the marks stay as they were; when
\* one is registered, run_once with an ordinary unit runs that unit, and
\* run_once with the notes unit runs no linter of a language and leaves
\* ERRORS and the two lint mark-groups as they were.
NotesDependency ==
    [][last'.entered =>
          IF UserNotes \notin DOMAIN LINTERS
          THEN /\ last'.exc = "KeyError"
               /\ ~last'.ran
               /\ ERRORS' = ERRORS /\ marks' = marks /\ dirty' = dirty
          ELSE IF last'.unit = UserNotes
               THEN /\ ~last'.ran
                    /\ ERRORS' = ERRORS
                    /\ marks'[last'.vid].underline = marks[last'.vid].underline
                    /\ marks'[last'.vid].outlines = marks[last'.vid].outlines
               ELSE last'.ran]_vars

\* the command ran a registered linter on an edited document, no notes unit
\* being registered: KeyError, the edit unread, nothing stored
NotesDependencyWitness ==
    /\ last.op = "run"
    /\ last.entered
    /\ last.unit = KeyPython
    /\ UserNotes \notin DOMAIN LINTERS
    /\ last.exc = "KeyError"
    /\ dirty[last.vid]
    /\ last.vid \notin DOMAIN ERRORS

\* the command ran the notes unit on a document that carries lint marks
NotesOnlyRefreshReached ==
    /\ last.op = "run"
    /\ last.unit = UserNotes
    /\ last.exc = NoExc
    /\ last.prevMarked
    /\ marks[last.vid].underline # {} /\ marks[last.vid].notes # {}

\* C19 (erasing marks never touches diagnostics): no step removes a document
\* id from ERRORS; the erase of the lint marks by 'reset' and by queue_linter
\* for a document matching no registered key leaves ERRORS as it was; and a
\* cursor move onto a line for which the document's last completed run
\* returned messages sets the status to those messages, whether or not the
\* document still carries lint marks.
ErasedBy(e, v) == e.op = "reset" \/ (e.op = "on_modified" /\ ~Registered(v))
SettingMachine ==
    [][/\ \A v \in views :
            setting'[v] =
                IF last'.vid # v THEN setting[v]
                ELSE CASE last'.op = "on" -> "true"
                       [] last'.op = "off" -> "false"
                       [] last'.op = "run" -> IF setting[v] = "true" THEN "unset" ELSE setting[v]
                       [] last'.op = "reset" -> IF setting[v] = "unset" THEN "true" ELSE setting[v]
                       [] OTHER -> setting[v]
       /\ (last'.op \in {"update_view", "on_load"} /\ last'.ran) =>
            setting'[last'.vid] = "true"]_vars

\* 'reset' on a document switched off, a callback for its last edit outstanding
SettingMachineWitness ==
    /\ last.op = "reset"
    /\ setting[last.vid] = "false"
    /\ dirty[last.vid]
    /\ pending # <<>>

(* ---------------- properties: loader ---------------- *)
Enumerated == {SplitFirst(globList[i]) : i \in 1..Len(globList)} \ ignore

\* C7 (per-unit load isolation): load_all returns normally whatever fails in
\* one unit, and afterwards the registry holds the language of every
\* enumerated unit that can be loaded.
LoadIsolation ==
    ldLast.op = "load_all" =>
        /\ ldLast.exc = NoExc
        /\ DOMAIN LINTERS = {LanguageOf(n) : n \in {u \in Enumerated : disk[u] = "ok"}}

\* C8 (working directory restored): after load_module, on every exit path,
\* the working directory is what it was before the call.
CwdRestored == ldLast.op = "load_module" => cwd = ldLast.pushd

\* C13 (reload scoping): reload_module handed a module whose __name__ is not
\* inside the package sublimelint.modules, one whose name only begins with
\* the same characters included, does nothing: load_module is not called, no
\* exception leaves the method and the registry is unchanged.
InNamespace(fullmod) == StartsWith(fullmod, modpath \o <<".">>)
ReloadScoping ==
    [][(ldLast'.op = "reload_module" /\ ~InNamespace(ldLast'.module)) =>
          /\ ~ldLast'.called
          /\ ldLast'.exc = NoExc
          /\ LINTERS' = LINTERS]_vars

====
